---- MODULE Spec2Model ----
(***************************************************************************)
(* Reference resolution and chunk materialisation of the component store:  *)
(* ComponentLoader.get, ChunkStreamer.stream_irn / _embed_all_nested /     *)
(* _add_to_call_tree, the entry detection of component_loader.py and       *)
(* irn_chunk_processor.py, and log_call_tree of tree_logger.py.            *)
(*                                                                         *)
(* Strings are modelled structurally.  An id string such as                *)
(* "irn00001_cleaned" is the record                                        *)
(*   [typ |-> "IRN", lower |-> TRUE, num |-> 1, nd |-> 5, suf |-> "_cleaned"] *)
(* (type letters, their case, the number the first five digits spell, the  *)
(* count of digits, the suffix).  A line of text is a record               *)
(*   [k, id, n, ind, kw]: k = "text" is an ordinary line (id = the file it *)
(* was written in, n = its index there, so every ordinary line is unique), *)
(* k = "use" is a directive line `<kw> <id>`, and the other kinds are the  *)
(* marker lines the streamer emits.  ind counts leading blanks.            *)
(***************************************************************************)
EXTENDS Integers, Sequences, FiniteSets, TLC

VARIABLES
    components,     \* the component directory: file name (without .txt) -> text
    visited_irns,   \* ChunkStreamer.visited_irns
    call_tree,      \* ChunkStreamer.call_tree: parent -> list of children
    artifacts,      \* the output directory: id -> lines of <id>.txt
    writes,         \* history: ids in the order their artifacts were written
    write_failed,   \* history: ids whose open/write raised
    overflow,       \* history: the recursion went deeper than DepthLimit
    last,           \* history: the last stream_irn call to return: its argument,
                    \* visited_irns before it, its outcome
    phase,          \* position of the run driver (main)
    entries,        \* result of detect_entry_irns
    entries2,       \* result of list_irns() - find_used_irns()
    pending,        \* entries the for-loop of main has not reached yet
    order,          \* entries in the order the for-loop reached them
    run,            \* which run over the store this is (1 or 2)
    prev,           \* artifacts of the first run
    tree_log,       \* what the last log_call_tree call wrote, and whether it raised
    unreadable,     \* the files of the component directory whose open/read raises
    output_dir,     \* "present" or "absent": whether the output directory exists
    loaded,         \* ComponentLoader.components, or the exception of the constructor
    get_result,     \* history: the last direct ComponentLoader.get call and its outcome
    pc,             \* for each thread, where in stream_irn it is, and with which id
    attempts,       \* history: <<thread, id>> for every try block of stream_irn entered
    scanned,        \* history: <<parent, text>> for every text _embed_all_nested scanned
    embed_result,   \* history: the last direct _embed_all_nested call and what it returned
    gen             \* ClaudeClient.generate_code: its position, locals and result

vars == <<components, visited_irns, call_tree, artifacts, writes, write_failed,
          overflow, last, phase, entries, entries2, pending, order, run, prev,
          tree_log, unreadable, output_dir, loaded, get_result, pc, attempts,
          scanned, embed_result, gen>>

streamer == <<visited_irns, call_tree, artifacts, writes, write_failed, overflow, last,
              scanned>>
driver == <<phase, entries, entries2, pending, order, run, prev, tree_log>>
env == <<unreadable, output_dir, loaded, get_result, pc, attempts>>
aux == <<embed_result, gen>>

----------------------------------------------------------------------------
(* Bounds of the model *)

\* total number of directive lines in the store of the streaming specification
MaxRefs == 3
\* total number of directive lines in the store of the run specification
MaxRunRefs == 2
\* total number of directive lines in the store of the id-form specification
MaxFormRefs == 2
\* total number of edges of the call tree of the tree specification
MaxEdges == 4
\* total number of directive lines in the store of the variant specification
MaxVariantRefs == 2
\* total number of directive lines in the store of the embedding specification
MaxEmbedRefs == 2

----------------------------------------------------------------------------
(* Ids and lines *)

\* the type codes of the directive grammar
Types == {"MRN", "TRN", "PRN", "CRN", "DRN", "SRN", "IRR", "MRR", "IRN"}

Tok(typ, num, suf, lower) ==
    [typ |-> typ, lower |-> lower, num |-> num, nd |-> 5, suf |-> suf]

IRN(n) == Tok("IRN", n, "", FALSE)
MRN(n) == Tok("MRN", n, "", FALSE)

TextLine(owner, n) == [k |-> "text", id |-> owner, n |-> n, ind |-> 0, kw |-> ""]
UseLine(kw, tok, ind) == [k |-> "use", id |-> tok, n |-> 0, ind |-> ind, kw |-> kw]
Marker(kind, id, ind) == [k |-> kind, id |-> id, n |-> 0, ind |-> ind, kw |-> ""]

EmptyFn == [x \in {} |-> <<>>]

\* str.upper() of an id string
Upper(tok) ==
    [tok EXCEPT !.lower = FALSE,
                !.suf = IF @ = "_cleaned" THEN "_CLEANED" ELSE @]

\* "IRN00001" < "IRN00001_cleaned" < "IRN00002": the order of the id strings
IdLess(a, b) ==
    \/ a.num < b.num
    \/ a.num = b.num /\ a.suf = "" /\ b.suf # ""

----------------------------------------------------------------------------
(* ComponentLoader.get (component_loader.py) *)

\* re.match(r"^(MRN|...|IRN)\d{5}", component_id, re.IGNORECASE)
GetMatches(component_id) ==
    component_id.typ \in Types /\ component_id.nd >= 5

\* match.group(0).upper(): the type letters and the first five digits
BaseId(component_id) ==
    [Upper(component_id) EXCEPT !.nd = 5, !.suf = ""]

\* _load_components: the snapshot of the directory dir, or the exception that
\* leaves the constructor: os.listdir raises when the directory cannot be listed
\* (line 11), and open/read of a file raises with no handler around it
\* (lines 14-15)
LoadComponents(dir, unread, listable) ==
    IF ~listable
    THEN [ok |-> FALSE, exc |-> "FileNotFoundError", components |-> EmptyFn]
    ELSE IF DOMAIN dir \cap unread # {}
    THEN [ok |-> FALSE, exc |-> "PermissionError", components |-> EmptyFn]
    ELSE [ok |-> TRUE, exc |-> "", components |-> dir]

\* lines 27-30 of get: the file of base_id is looked up and read, now
ReadFile(base_id) ==
    IF base_id \notin DOMAIN components
    THEN [ok |-> FALSE, exc |-> "FileNotFoundError", text |-> <<>>]
    ELSE IF base_id \in unreadable
    THEN [ok |-> FALSE, exc |-> "PermissionError", text |-> <<>>]
    ELSE [ok |-> TRUE, exc |-> "", text |-> components[base_id]]

\* get without the statement of line 43: os is the module's import, and the
\* file of the base id is looked up and read
LoaderGet_ModuleOs(component_id) ==
    IF ~GetMatches(component_id)
    THEN [ok |-> FALSE, exc |-> "FileNotFoundError", text |-> <<>>]
    ELSE ReadFile(BaseId(component_id))

\* `import os` (line 43) is indented as a statement of get's body, after the
\* commented-out detect_entry_irns: Python therefore compiles os as a local
\* variable of get, and it is not yet assigned when line 26 reads it
OsIsUnboundLocal == TRUE

\* get returns the text (ok) or raises exc: FileNotFoundError for an id outside
\* the grammar (line 24); for every other id `os.path.join` (line 26) raises
\* UnboundLocalError before any file is looked at, so lines 27-30 never run
LoaderGet(component_id) ==
    IF ~GetMatches(component_id)
    THEN [ok |-> FALSE, exc |-> "FileNotFoundError", text |-> <<>>]
    ELSE IF OsIsUnboundLocal
    THEN [ok |-> FALSE, exc |-> "UnboundLocalError", text |-> <<>>]
    ELSE ReadFile(BaseId(component_id))

----------------------------------------------------------------------------
(* ChunkStreamer (chunk_streamer.py) *)

\* text.splitlines()
SplitLines(text) == text

\* comp_text.strip().splitlines(): the blanks before the first line are gone
StripLines(text) ==
    [i \in 1..Len(text) |-> IF i = 1 THEN [text[i] EXCEPT !.ind = 0] ELSE text[i]]

\* re.match(r"^(\s*)USE\s+((mrn|...|irn)\d{5}(?:_[a-zA-Z0-9_]+)?)", line.strip(), re.IGNORECASE)
Match(line) ==
    /\ line.k = "use"
    /\ line.kw \in {"USE", "use"}
    /\ line.id.typ \in Types
    /\ line.id.nd >= 5

\* match.group(1): the pattern is applied to line.strip(), so the group is empty
MatchIndent(line) == 0

\* match.group(2).upper(): a sixth digit ends the match, and the suffix with it
FullId(line) ==
    [Upper(line.id) EXCEPT !.nd = 5, !.suf = IF line.id.nd = 5 THEN @ ELSE ""]

\* full_id.split("_")[0]
CompId(full_id) == [full_id EXCEPT !.suf = ""]

\* f"{indent}{l}"
Indented(indent, lines) ==
    [i \in 1..Len(lines) |-> [lines[i] EXCEPT !.ind = @ + indent]]

\* _add_to_call_tree without the test of line 100
AddToCallTree_NoCheck(tree, parent, child) ==
    LET t1 == IF parent \notin DOMAIN tree THEN (parent :> <<>>) @@ tree ELSE tree
    IN  [t1 EXCEPT ![parent] = Append(@, child)]

\* a call that records nothing
AddToCallTree_Skip(tree, parent, child) == tree

\* _add_to_call_tree
AddToCallTree(tree, parent, child) ==
    LET t1 == IF parent \notin DOMAIN tree THEN (parent :> <<>>) @@ tree ELSE tree
    IN  IF \E j \in 1..Len(t1[parent]) : t1[parent][j] = child
        THEN t1
        ELSE [t1 EXCEPT ![parent] = Append(@, child)]

\* a test that never finds the id
AlreadyProcessed_Never(irn_id, seen) == FALSE

\* stream_irn: `if irn_id in self.visited_irns`
AlreadyProcessed(irn_id, seen) == irn_id \in seen

\* _embed_all_nested: `if visited is None: visited = set()`, as stream_irn calls it
InitialVisited(irn_id) == {}

\* _embed_all_nested: `if comp_id in visited`
IsDuplicate(comp_id, visited) == comp_id \in visited

\* _embed_all_nested: `visited.add(comp_id)`
MarkVisited(visited, comp_id) == visited \cup {comp_id}

\* _embed_all_nested: `comp_id.lower().startswith("irn") and comp_id not in self.visited_irns`
IsNestedIrn(comp_id, seen) == comp_id.typ = "IRN" /\ comp_id \notin seen

\* the lines appended right after a successful get: start marker, the
\* component's own lines, end marker
InlineBlock(comp_id, comp_text, indent) ==
    <<Marker("start", comp_id, indent)>>
        \o Indented(indent, StripLines(comp_text))
        \o <<Marker("end", comp_id, indent)>>

\* the deepest nesting of stream_irn / _embed_all_nested frames the model follows:
\* every frame below the first adds an id to visited_irns or to a visited set
DepthLimit ==
    (Cardinality(DOMAIN components) + 2) * (Cardinality(DOMAIN components) + 2)

RECURSIVE StreamIrn(_, _, _, _)
RECURSIVE EmbedAllNested(_, _, _, _, _, _)
RECURSIVE EmbedLoop(_, _, _, _, _, _, _, _)

\* _embed_all_nested: `except Exception as e` handles every exception of the try body
EmbedCatches(exc) == TRUE

\* the body of `if match:` for one directive line; exc is the exception that
\* leaves it ("" when none does)
EmbedDirective(st, wfail, line, parent, visited, d) ==
    LET indent == MatchIndent(line)
        comp_id == CompId(FullId(line))
        st1 == [st EXCEPT !.call_tree = AddToCallTree(@, parent, comp_id)]
    IN  IF IsDuplicate(comp_id, visited)
        THEN [st |-> st1, visited |-> visited, exc |-> "",
              output |-> <<Marker("dup", comp_id, indent)>>]
        ELSE
        LET visited1 == MarkVisited(visited, comp_id)
            got == LoaderGet(comp_id)
        IN  IF ~got.ok
            THEN IF EmbedCatches(got.exc)
                 THEN [st |-> st1, visited |-> visited1, exc |-> "",
                       output |-> <<Marker("missing", comp_id, indent)>>]
                 ELSE [st |-> st1, visited |-> visited1, exc |-> got.exc,
                       output |-> <<>>]
            ELSE
            LET block == InlineBlock(comp_id, got.text, indent)
            IN  IF IsNestedIrn(comp_id, st1.visited_irns)
                THEN LET s2 == StreamIrn(st1, wfail, comp_id, d + 1)
                     IN  IF s2.last.raised /\ ~EmbedCatches("OSError")
                         THEN [st |-> s2, visited |-> visited1, exc |-> "OSError",
                               output |-> block]
                         ELSE [st |-> s2, visited |-> visited1, exc |-> "",
                               output |-> Append(block,
                                   Marker(IF s2.last.raised THEN "missing" ELSE "nested",
                                          comp_id, indent))]
                ELSE LET r == EmbedAllNested(st1, wfail, got.text, comp_id, visited1, d + 1)
                     IN  IF r.exc = ""
                         THEN [st |-> r.st, visited |-> r.visited, exc |-> "",
                               output |-> block \o Indented(indent, r.output)]
                         ELSE IF EmbedCatches(r.exc)
                         THEN [st |-> r.st, visited |-> r.visited, exc |-> "",
                               output |-> Append(block, Marker("missing", comp_id, indent))]
                         ELSE [st |-> r.st, visited |-> r.visited, exc |-> r.exc,
                               output |-> block]

\* the while loop of _embed_all_nested from line i on
EmbedLoop(st, wfail, lines, i, parent, visited, output, d) ==
    IF i > Len(lines) \/ st.overflow
    THEN [st |-> st, visited |-> visited, exc |-> "", output |-> output]
    ELSE IF Match(lines[i])
         THEN LET r == EmbedDirective(st, wfail, lines[i], parent, visited, d)
              IN  IF r.exc # ""
                  THEN [st |-> r.st, visited |-> r.visited, exc |-> r.exc,
                        output |-> output \o r.output]
                  ELSE EmbedLoop(r.st, wfail, lines, i + 1, parent, r.visited,
                                 output \o r.output, d)
         ELSE EmbedLoop(st, wfail, lines, i + 1, parent, visited,
                        Append(output, lines[i]), d)

\* _embed_all_nested(text, parent, visited): the output lines, the visited set
\* and streamer state it leaves behind, and the exception it ends with
EmbedAllNested(st, wfail, text, parent, visited, d) ==
    IF d > DepthLimit
    THEN [st |-> [st EXCEPT !.overflow = TRUE], visited |-> visited, exc |-> "",
          output |-> <<>>]
    ELSE EmbedLoop([st EXCEPT !.scanned = @ \cup {<<parent, text>>}], wfail,
                   SplitLines(text), 1, parent, visited, <<>>, d)

\* a handler that names the exception of a missing file only
StreamCatches_OnlyNotFound(exc) == exc = "FileNotFoundError"

\* stream_irn: `except Exception as e` handles every exception of the try body
StreamCatches(exc) == TRUE

\* open(chunk_path, "w") raises: for the ids of wfail, and for every id when
\* the output directory does not exist (nothing in stream_irn creates it)
OpenRaises(irn_id, wfail) == irn_id \in wfail \/ output_dir = "absent"

\* lines 23-38 of stream_irn: the try block and its handler, from the state st1
\* that line 22 left; before: visited_irns when the call began.
\* exc is the exception the try body ends with ("" when it completes).
StreamTry(st1, wfail, irn_id, before, d) ==
    LET got == LoaderGet(irn_id)
        r == EmbedAllNested(st1, wfail, got.text, irn_id, InitialVisited(irn_id), d + 1)
        content_lines == <<Marker("startirn", irn_id, 0)>> \o r.output
                            \o <<Marker("endirn", irn_id, 0)>>
        exc == IF ~got.ok THEN got.exc
               ELSE IF r.exc # "" THEN r.exc
               ELSE IF OpenRaises(irn_id, wfail) THEN "OSError" ELSE ""
        st2 == IF ~got.ok THEN st1
               ELSE IF r.exc # "" THEN r.st
               ELSE IF OpenRaises(irn_id, wfail)
                    THEN [r.st EXCEPT !.write_failed = @ \cup {irn_id}]
                    ELSE [r.st EXCEPT !.artifacts = (irn_id :> content_lines) @@ @,
                                      !.writes = Append(@, irn_id)]
    IN  [st2 EXCEPT !.last = [arg |-> irn_id, before |-> before,
                              ret |-> IF exc = "" THEN "path" ELSE "None",
                              raised |-> exc # "" /\ ~StreamCatches(exc),
                              skipped |-> FALSE]]

\* stream_irn(irn_id); wfail: the ids for which open(chunk_path, "w") raises
StreamIrn(st, wfail, irn_id, d) ==
    IF d > DepthLimit THEN [st EXCEPT !.overflow = TRUE]
    ELSE IF AlreadyProcessed(irn_id, st.visited_irns)
    THEN [st EXCEPT !.last = [arg |-> irn_id, before |-> st.visited_irns,
                              ret |-> "None", raised |-> FALSE, skipped |-> TRUE]]
    ELSE StreamTry([st EXCEPT !.visited_irns = @ \cup {irn_id}], wfail, irn_id,
                   st.visited_irns, d)

----------------------------------------------------------------------------
(* ChunkStreamer of chunk_streamer1.py.  Its output is a list of strings   *)
(* that may span lines: here a list of elements, each a sequence of lines. *)

\* the line an empty string of the output list becomes in the file
EmptyLine == [k |-> "empty", id |-> IRN(0), n |-> 0, ind |-> 0, kw |-> ""]

\* _extract_called_components(text, ['mrn']): the ids, in upper case and with
\* their suffix, of the directives of type MRN, in the order of the text
RECURSIVE ExtractCalledMrn(_)
ExtractCalledMrn(text) ==
    IF text = <<>> THEN <<>>
    ELSE LET line == Head(text)
         IN  (IF Match(line) /\ line.id.typ = "MRN" THEN <<FullId(line)>> ELSE <<>>)
                \o ExtractCalledMrn(Tail(text))

\* match.group("indent"): the pattern is applied to the text itself
VariantIndent(line) == line.ind

\* f"{indent}{line}" for each string of a list: the first line of each element
VariantIndented(indent, elems) ==
    [e \in 1..Len(elems) |->
        [i \in 1..Len(elems[e]) |->
            IF i = 1 THEN [elems[e][i] EXCEPT !.ind = @ + indent] ELSE elems[e][i]]]

\* text[last_pos:start].rstrip() and text[last_pos:].rstrip(): the lines seg
\* between two matches.  After a match the slice begins with the newline that
\* ends the directive line; a slice without lines is the empty string.
Slice(seg, first) ==
    IF first THEN (IF seg = <<>> THEN <<EmptyLine>> ELSE seg)
    ELSE <<EmptyLine>> \o seg

\* "\n".join(content_lines) as the lines of the file
RECURSIVE Flatten(_)
Flatten(elems) == IF elems = <<>> THEN <<>> ELSE Head(elems) \o Flatten(Tail(elems))

\* each line of a text as a string of the output list
Singly(lines) == [i \in 1..Len(lines) |-> <<lines[i]>>]

RECURSIVE VariantStreamIrn(_, _, _, _)
RECURSIVE VariantEmbed(_, _, _, _, _, _)
RECURSIVE VariantEmbedLoop(_, _, _, _, _, _, _, _, _, _)

\* the body of the finditer loop for the directive line `line`, lines 62-99
VariantDirective(st, wfail, line, parent, visited, d) ==
    LET indent == VariantIndent(line)
        child_id == FullId(line)
    IN  IF child_id \in visited
        THEN [st |-> st, visited |-> visited,
              output |-> <<<<Marker("dup", child_id, indent)>>>>]
        ELSE
        LET visited1 == visited \cup {child_id}
            st1 == [st EXCEPT !.call_tree = AddToCallTree(@, parent, child_id)]
            got == LoaderGet(child_id)
        IN  IF ~got.ok
            THEN [st |-> st1, visited |-> visited1,
                  output |-> <<<<Marker(IF got.exc = "FileNotFoundError"
                                        THEN "missing" ELSE "error", child_id, indent)>>>>]
            ELSE
            LET block == <<<<Marker("start", child_id, indent)>>>>
                            \o Singly(Indented(indent, StripLines(got.text)))
                            \o <<<<Marker("end", child_id, indent)>>>>
            IN  IF child_id.typ = "IRN" /\ child_id \notin st1.visited_irns
                THEN [st |-> VariantStreamIrn(st1, wfail, child_id, d + 1),
                      visited |-> visited1,
                      output |-> Append(block, <<Marker("nested", child_id, indent)>>)]
                ELSE LET r == VariantEmbed(st1, wfail, got.text, child_id, visited1, d + 1)
                     IN  [st |-> r.st, visited |-> r.visited,
                          output |-> block \o VariantIndented(indent, r.output)]

\* the finditer loop from line i on; seg: the lines since the last match,
\* first: no match yet
VariantEmbedLoop(st, wfail, lines, i, parent, visited, output, seg, first, d) ==
    IF st.overflow THEN [st |-> st, visited |-> visited, output |-> output]
    ELSE IF i > Len(lines)
    THEN [st |-> st, visited |-> visited, output |-> Append(output, Slice(seg, first))]
    ELSE IF Match(lines[i])
         THEN LET r == VariantDirective(st, wfail, lines[i], parent, visited, d)
              IN  VariantEmbedLoop(r.st, wfail, lines, i + 1, parent, r.visited,
                                   Append(output, Slice(seg, first)) \o r.output,
                                   <<>>, FALSE, d)
         ELSE VariantEmbedLoop(st, wfail, lines, i + 1, parent, visited, output,
                               Append(seg, lines[i]), first, d)

\* _embed_all_nested(text, parent, visited) of chunk_streamer1.py: both of its
\* handlers (lines 93-97) end in a marker, so no exception leaves it
VariantEmbed(st, wfail, text, parent, visited, d) ==
    IF d > DepthLimit
    THEN [st |-> [st EXCEPT !.overflow = TRUE], visited |-> visited, output |-> <<>>]
    ELSE VariantEmbedLoop(st, wfail, text, 1, parent, visited, <<>>, <<>>, TRUE, d)

\* the loop of lines 29-38 over mrn_ids from index i on: exc is the exception
\* of get (line 31), which no handler inside the loop catches
RECURSIVE VariantMrnLoop(_, _, _, _, _, _, _)
VariantMrnLoop(st, wfail, irn_id, mrn_ids, i, content, d) ==
    IF i > Len(mrn_ids) \/ st.overflow
    THEN [st |-> st, exc |-> "", content |-> content]
    ELSE
    LET mrn_id == mrn_ids[i]
        st1 == [st EXCEPT !.call_tree[irn_id] = Append(@, mrn_id)]
        got == LoaderGet(mrn_id)
    IN  IF ~got.ok
        THEN [st |-> st1, exc |-> got.exc, content |-> content]
        ELSE
        LET r == VariantEmbed(st1, wfail, got.text, mrn_id, {}, d + 1)
        IN  VariantMrnLoop(r.st, wfail, irn_id, mrn_ids, i + 1,
                content \o <<<<Marker("startmrn", mrn_id, 0)>>, StripLines(got.text)>>
                        \o r.output \o <<<<Marker("endmrn", mrn_id, 0)>>>>,
                d)

\* stream_irn(irn_id) of chunk_streamer1.py
VariantStreamIrn(st, wfail, irn_id, d) ==
    IF d > DepthLimit THEN [st EXCEPT !.overflow = TRUE]
    ELSE IF AlreadyProcessed(irn_id, st.visited_irns)
    THEN [st EXCEPT !.last = [arg |-> irn_id, before |-> st.visited_irns,
                              ret |-> "None", raised |-> FALSE, skipped |-> TRUE]]
    ELSE
    LET st1 == [st EXCEPT !.visited_irns = @ \cup {irn_id}]
        got == LoaderGet(irn_id)
        st2 == [st1 EXCEPT !.call_tree = (irn_id :> <<>>) @@ @]
        r == VariantMrnLoop(st2, wfail, irn_id, ExtractCalledMrn(got.text), 1,
                            <<<<Marker("startirn", irn_id, 0)>>, StripLines(got.text)>>, d)
        content_lines == Append(r.content, <<Marker("endirn", irn_id, 0)>>)
        exc == IF ~got.ok THEN got.exc
               ELSE IF r.exc # "" THEN r.exc
               ELSE IF OpenRaises(irn_id, wfail) THEN "OSError" ELSE ""
        st3 == IF ~got.ok THEN st1
               ELSE IF r.exc # "" THEN r.st
               ELSE IF OpenRaises(irn_id, wfail)
                    THEN [r.st EXCEPT !.write_failed = @ \cup {irn_id}]
                    ELSE [r.st EXCEPT !.artifacts = (irn_id :> Flatten(content_lines)) @@ @,
                                      !.writes = Append(@, irn_id)]
    IN  [st3 EXCEPT !.last = [arg |-> irn_id, before |-> st.visited_irns,
                              ret |-> IF exc = "" THEN "path" ELSE "None",
                              raised |-> exc # "" /\ ~StreamCatches(exc),
                              skipped |-> FALSE]]

----------------------------------------------------------------------------
(* Entry detection (component_loader.py, irn_chunk_processor.py)           *)

\* the ids re.findall(pattern, content) returns for a text, the pattern being
\* case-sensitive `USE\s+(IRN\d{5}<suffix>)`: withSuffix tells whether the
\* group takes in a `_suffix`
FindAll(text, withSuffix) ==
    {[text[i].id EXCEPT !.nd = 5,
                        !.suf = IF withSuffix /\ text[i].id.nd = 5 THEN @ ELSE ""] :
        i \in {j \in 1..Len(text) :
                 /\ text[j].k = "use"
                 /\ text[j].kw = "USE"
                 /\ text[j].id.typ = "IRN"
                 /\ ~text[j].id.lower
                 /\ text[j].id.nd >= 5}}

\* filename.startswith("IRN")
StartsWithIRN(name) == name.typ = "IRN" /\ ~name.lower

\* detect_entry_irns: all_irns
AllIrns(dir) == {f \in DOMAIN dir : StartsWithIRN(f) /\ f.suf = "_cleaned"}

\* detect_entry_irns: used_irns
UsedIrns(dir) == UNION {FindAll(dir[f], TRUE) : f \in DOMAIN dir}

\* detect_entry_irns(component_dir): the set all_irns - used_irns
DetectEntryIrns(dir) == AllIrns(dir) \ UsedIrns(dir)

\* ComponentLoader.list_irns of irn_chunk_processor.py
ListIrns(dir) == {f \in DOMAIN dir : StartsWithIRN(f)}

\* ComponentLoader.extract_irns of irn_chunk_processor.py
ExtractIrns(text) == FindAll(text, FALSE)

\* ComponentLoader.find_used_irns of irn_chunk_processor.py
FindUsedIrns(dir) == UNION {ExtractIrns(dir[f]) : f \in DOMAIN dir}

----------------------------------------------------------------------------
(* The stores of the streaming specification: IRN00001 and MRN10001 always *)
(* exist, IRN00002 and MRN10002 may be missing; a text with k directives   *)
(* is line 0, directive 1, line 1, ..., directive k, line k.  A directive  *)
(* is given as [kw, id], or as [kw, id, ind] when it is indented.          *)

MkText(owner, targets) ==
    [i \in 1..(2 * Len(targets) + 1) |->
        IF i % 2 = 1 THEN TextLine(owner, (i - 1) \div 2)
                     ELSE LET t == targets[i \div 2]
                          IN  UseLine(t.kw, t.id, IF "ind" \in DOMAIN t THEN t.ind ELSE 0)]

Use(id) == [kw |-> "USE", id |-> id]

RECURSIVE SeqsOfLen(_, _)
SeqsOfLen(S, n) ==
    IF n = 0 THEN {<<>>}
    ELSE {Append(q, x) : q \in SeqsOfLen(S, n - 1), x \in S}

SeqsUpTo(S, n) == UNION {SeqsOfLen(S, k) : k \in 0..n}

\* every way to give the files of fs directives, at most budget in all
RECURSIVE Directives(_, _, _)
Directives(fs, targets, budget) ==
    IF fs = {} THEN {EmptyFn}
    ELSE LET f == CHOOSE x \in fs : TRUE
         IN  UNION {{(f :> q) @@ g :
                        g \in Directives(fs \ {f}, targets, budget - Len(q))} :
                    q \in SeqsUpTo(targets, budget)}

\* the store in which file f holds the directives uses[f]
StoreOf(uses) == [f \in DOMAIN uses |-> MkText(f, uses[f])]

StreamIds == {IRN(1), IRN(2), MRN(1), MRN(2)}

StreamStores ==
    UNION {Directives({IRN(1), MRN(1)} \cup opt, {Use(x) : x \in StreamIds}, MaxRefs) :
           opt \in SUBSET {IRN(2), MRN(2)}}

\* the ids stream_irn is called with
StreamRoots == {IRN(1), IRN(2)}

----------------------------------------------------------------------------
(* The streaming specification: a ChunkStreamer over a store, and any      *)
(* sequence of stream_irn calls on it.                                     *)

NoCall ==
    [arg |-> IRN(0), before |-> {}, ret |-> "None", raised |-> FALSE, skipped |-> FALSE]

\* no log_call_tree call yet
NoLog == [lines |-> <<>>, exc |-> ""]

FreshStreamer ==
    /\ visited_irns = {}
    /\ call_tree = EmptyFn
    /\ artifacts = EmptyFn
    /\ writes = <<>>
    /\ write_failed = {}
    /\ overflow = FALSE
    /\ last = NoCall
    /\ scanned = {}

\* no direct get call yet
NoGet == [id |-> IRN(0), ok |-> FALSE, exc |-> "", text |-> <<>>]

Threads == {1, 2}

\* no thread is inside stream_irn
NoThread == [t \in Threads |-> [at |-> "idle", id |-> IRN(0), before |-> {}]]

\* every file readable and the output directory there; the loader constructed
\* over the directory; one caller
QuietEnv ==
    /\ unreadable = {}
    /\ output_dir = "present"
    /\ loaded = LoadComponents(components, {}, TRUE)
    /\ get_result = NoGet
    /\ pc = NoThread
    /\ attempts = {}

\* no direct _embed_all_nested call yet
NoEmbed == [called |-> FALSE, parent |-> IRN(0), text |-> <<>>, output |-> <<>>]

\* the empty string as a response text
EmptyText == [len |-> 0, trail |-> 0, fences |-> 0, files |-> 0, tail |-> "cut",
              json |-> "none"]

\* no GenerationResponse yet
NoResult == [success |-> FALSE, generated_code |-> "", error_message |-> "",
             continuations_used |-> 0, attempt |-> 0]

\* generate_code has not been called
NoGen == [pc |-> "idle", attempt |-> 0, continuation_count |-> 0,
          current_response |-> EmptyText, result |-> NoResult,
          initial_requests |-> 0, failed |-> 0, last_exc |-> "",
          continuation_response |-> EmptyText, request_raised |-> FALSE]

\* no direct _embed_all_nested call and no generate_code call
QuietAux ==
    /\ embed_result = NoEmbed
    /\ gen = NoGen

IdleDriver ==
    /\ phase = "stream"
    /\ entries = {}
    /\ entries2 = {}
    /\ pending = {}
    /\ order = <<>>
    /\ run = 1
    /\ prev = EmptyFn
    /\ tree_log = NoLog

----------------------------------------------------------------------------
(* The stores of the run specification: IRN files with and without the     *)
(* `_cleaned` suffix, whose directives differ in case and suffix.          *)

Cleaned(n) == Tok("IRN", n, "_cleaned", FALSE)

RunTargets ==
    {Use(IRN(1)), Use(IRN(3)), [kw |-> "use", id |-> Tok("IRN", 3, "", TRUE)],
     Use(Cleaned(2))}

RunStores ==
    UNION {Directives({Cleaned(1), Cleaned(2), IRN(1), IRN(2)} \cup opt, RunTargets, MaxRunRefs) :
           opt \in SUBSET {IRN(3), Cleaned(3)}}

State ==
    [visited_irns |-> visited_irns, call_tree |-> call_tree, artifacts |-> artifacts,
     writes |-> writes, write_failed |-> write_failed, overflow |-> overflow,
     last |-> last, scanned |-> scanned]

\* a ChunkStreamer right after __init__
FreshState ==
    [visited_irns |-> {}, call_tree |-> EmptyFn, artifacts |-> EmptyFn,
     writes |-> <<>>, write_failed |-> {}, overflow |-> FALSE, last |-> NoCall,
     scanned |-> {}]

SetState(st) ==
    /\ visited_irns' = st.visited_irns
    /\ call_tree' = st.call_tree
    /\ artifacts' = st.artifacts
    /\ writes' = st.writes
    /\ write_failed' = st.write_failed
    /\ overflow' = st.overflow
    /\ last' = st.last
    /\ scanned' = st.scanned

Init ==
    /\ \E uses \in StreamStores : components = StoreOf(uses)
    /\ FreshStreamer
    /\ IdleDriver
    /\ QuietAux
    /\ QuietEnv

\* a caller runs streamer.stream_irn(irn_id)
CallStreamIrn(irn_id, wfail) ==
    /\ SetState(StreamIrn(State, wfail, irn_id, 1))
    /\ UNCHANGED <<components, driver, env, aux>>

Next ==
    \E irn_id \in StreamRoots, wfail \in SUBSET StreamRoots :
        CallStreamIrn(irn_id, wfail)

Spec == Init /\ [][Next]_vars

----------------------------------------------------------------------------
(* The run specification: two runs over one store, each from a fresh       *)
(* streamer: detect the entries, then stream_irn for each of them.         *)

RunInit ==
    /\ \E uses \in RunStores : components = StoreOf(uses)
    /\ FreshStreamer
    /\ phase = "detect"
    /\ entries = {}
    /\ entries2 = {}
    /\ pending = {}
    /\ order = <<>>
    /\ run = 1
    /\ prev = EmptyFn
    /\ tree_log = NoLog
    /\ QuietEnv
    /\ QuietAux

\* entry_irns = detect_entry_irns(component_dir)
Detect ==
    /\ phase = "detect"
    /\ entries' = DetectEntryIrns(components)
    /\ pending' = DetectEntryIrns(components)
    /\ order' = <<>>
    /\ phase' = "loop"
    /\ UNCHANGED <<components, streamer, entries2, run, prev, tree_log, env,
                   aux>>

\* the entries by irn_chunk_processor.py: list_irns() minus find_used_irns()
DetectByProcessor ==
    /\ phase = "detect"
    /\ entries2' = ListIrns(components) \ FindUsedIrns(components)
    /\ UNCHANGED <<components, streamer, phase, entries, pending, order, run, prev,
                   tree_log, env, aux>>

\* one iteration of `for irn_id in entry_irns`: entry_irns is a set of str, and
\* the order in which a set yields its elements is not fixed across runs
StreamNext ==
    /\ phase = "loop"
    /\ \E irn_id \in pending :
        /\ SetState(StreamIrn(State, {}, irn_id, 1))
        /\ pending' = pending \ {irn_id}
        /\ order' = Append(order, irn_id)
    /\ UNCHANGED <<components, phase, entries, entries2, run, prev, tree_log, env,
                   aux>>

\* the first run is over: its artifacts are kept aside, and the second run
\* starts with a new ChunkStreamer and an empty output directory
SecondRun ==
    /\ phase = "loop" /\ pending = {} /\ run = 1
    /\ prev' = artifacts
    /\ run' = 2
    /\ phase' = "detect"
    /\ visited_irns' = {}
    /\ call_tree' = EmptyFn
    /\ artifacts' = EmptyFn
    /\ writes' = <<>>
    /\ write_failed' = {}
    /\ overflow' = FALSE
    /\ last' = NoCall
    /\ scanned' = {}
    /\ UNCHANGED <<components, entries, entries2, pending, order, tree_log, env,
                   aux>>

\* the second run is over
Finish ==
    /\ phase = "loop" /\ pending = {} /\ run = 2
    /\ phase' = "done"
    /\ UNCHANGED <<components, streamer, entries, entries2, pending, order, run, prev,
                   tree_log, env, aux>>

RunNext == Detect \/ DetectByProcessor \/ StreamNext \/ SecondRun \/ Finish

SpecRun == RunInit /\ [][RunNext]_vars

----------------------------------------------------------------------------
(* The id-form specification: stream_irn called with the spellings of one  *)
(* id, over stores whose directives are indented or break the id grammar.  *)

UseAt(id, ind) == [kw |-> "USE", id |-> id, ind |-> ind]

\* "irn00001" and "IRN00001_X"
LowerIrn == Tok("IRN", 1, "", TRUE)
SuffixedIrn == Tok("IRN", 1, "_X", FALSE)

\* an id of four digits, an id of six digits whose first five are those of
\* MRN10001, and an id whose type code is not one of Types
ShortId == [MRN(1) EXCEPT !.nd = 4]
LongId == [MRN(1) EXCEPT !.nd = 6]
UnknownTypeId == Tok("XRN", 1, "", FALSE)

\* the blanks before an indented directive
W == 1

FormTargets ==
    {UseAt(MRN(1), 0), UseAt(MRN(1), W), UseAt(IRN(1), 0),
     UseAt(ShortId, 0), UseAt(LongId, 0), UseAt(UnknownTypeId, 0)}

FormStores == Directives({IRN(1), MRN(1)}, FormTargets, MaxFormRefs)

FormRoots == {IRN(1), LowerIrn, SuffixedIrn}

FormInit ==
    /\ \E uses \in FormStores : components = StoreOf(uses)
    /\ FreshStreamer
    /\ IdleDriver
    /\ QuietAux
    /\ QuietEnv

FormNext ==
    \E irn_id \in FormRoots, wfail \in SUBSET {IRN(1)} :
        CallStreamIrn(irn_id, wfail)

SpecForms == FormInit /\ [][FormNext]_vars


----------------------------------------------------------------------------
(* The environment specification: the component directory changes, files   *)
(* are unreadable, the output directory may not exist; the loader is       *)
(* constructed over the directory, then get and stream_irn are called.     *)

EnvFiles == {IRN(1), MRN(1)}

\* the texts a file of the directory is given
EnvTexts == {<<>>, <<Use(MRN(1))>>}

\* the constructor has not run
NotLoaded == [ok |-> FALSE, exc |-> "", components |-> EmptyFn]

EnvInit ==
    /\ components = StoreOf((IRN(1) :> <<Use(MRN(1))>>) @@ (MRN(1) :> <<>>))
    /\ unreadable \in SUBSET EnvFiles
    /\ output_dir \in {"present", "absent"}
    /\ loaded = NotLoaded
    /\ get_result = NoGet
    /\ pc = NoThread
    /\ attempts = {}
    /\ FreshStreamer
    /\ IdleDriver
    /\ QuietAux

\* loader = ComponentLoader(component_dir); listable: os.listdir succeeds
Construct(listable) ==
    /\ loaded = NotLoaded
    /\ loaded' = LoadComponents(components, unreadable, listable)
    /\ UNCHANGED <<components, streamer, driver, unreadable, output_dir, get_result,
                   pc, attempts, aux>>

\* the environment writes, creates or deletes a file of the directory, or
\* takes the read permission from it, after the loader was constructed and
\* before the streaming
WriteFile(f, targets) ==
    /\ loaded.ok /\ visited_irns = {}
    /\ components' = (f :> MkText(f, targets)) @@ components
    /\ UNCHANGED <<streamer, driver, env, aux>>

DeleteFile(f) ==
    /\ loaded.ok /\ visited_irns = {}
    /\ f \in DOMAIN components
    /\ components' = [g \in DOMAIN components \ {f} |-> components[g]]
    /\ UNCHANGED <<streamer, driver, env, aux>>

MakeUnreadable(f) ==
    /\ loaded.ok /\ visited_irns = {}
    /\ f \in DOMAIN components
    /\ unreadable' = unreadable \cup {f}
    /\ UNCHANGED <<components, streamer, driver, output_dir, loaded, get_result,
                   pc, attempts, aux>>

\* loader.get(component_id)
CallGet(component_id) ==
    /\ loaded.ok
    /\ get_result' = [id |-> component_id, ok |-> LoaderGet(component_id).ok,
                       exc |-> LoaderGet(component_id).exc,
                       text |-> LoaderGet(component_id).text]
    /\ UNCHANGED <<components, streamer, driver, unreadable, output_dir, loaded,
                   pc, attempts, aux>>

\* ChunkStreamer(loader, output_dir).stream_irn("IRN00001")
EnvStream ==
    /\ loaded.ok
    /\ CallStreamIrn(IRN(1), {})

EnvNext ==
    \/ \E listable \in BOOLEAN : Construct(listable)
    \/ \E f \in EnvFiles, targets \in EnvTexts : WriteFile(f, targets)
    \/ \E f \in EnvFiles : DeleteFile(f)
    \/ \E f \in EnvFiles : MakeUnreadable(f)
    \/ \E component_id \in EnvFiles : CallGet(component_id)
    \/ EnvStream

SpecEnv == EnvInit /\ [][EnvNext]_vars

----------------------------------------------------------------------------
(* The thread specification: the threads of Threads call stream_irn on one *)
(* ChunkStreamer.  Nothing in stream_irn takes a lock, so a thread can be  *)
(* suspended between the test of line 18 and the add of line 22, and       *)
(* between the add and the try block; the try block, with the stream_irn   *)
(* calls nested in it, is followed as one step.                            *)

ParInit ==
    /\ components = StoreOf((IRN(1) :> <<Use(IRN(2))>>) @@ (IRN(2) :> <<>>))
    /\ FreshStreamer
    /\ IdleDriver
    /\ QuietAux
    /\ QuietEnv

\* thread t calls stream_irn(irn_id): lines 16-20
TestVisited(t, irn_id) ==
    /\ pc[t].at = "idle"
    /\ IF AlreadyProcessed(irn_id, visited_irns)
       THEN /\ last' = [arg |-> irn_id, before |-> visited_irns, ret |-> "None",
                        raised |-> FALSE, skipped |-> TRUE]
            /\ pc' = pc
       ELSE /\ pc' = [pc EXCEPT ![t] = [at |-> "passed", id |-> irn_id,
                                        before |-> visited_irns]]
            /\ last' = last
    /\ UNCHANGED <<components, visited_irns, call_tree, artifacts, writes,
                   write_failed, overflow, scanned, driver, unreadable, output_dir, loaded,
                   get_result, attempts, aux>>

\* thread t runs line 22 and enters the try block
AddVisited(t) ==
    /\ pc[t].at = "passed"
    /\ visited_irns' = visited_irns \cup {pc[t].id}
    /\ attempts' = attempts \cup {<<t, pc[t].id>>}
    /\ pc' = [pc EXCEPT ![t].at = "try"]
    /\ UNCHANGED <<components, call_tree, artifacts, writes, write_failed, overflow,
                   last, scanned, driver, unreadable, output_dir, loaded, get_result,
                   aux>>

\* thread t runs lines 23-38 and returns
RunTry(t) ==
    /\ pc[t].at = "try"
    /\ SetState(StreamTry(State, {}, pc[t].id, pc[t].before, 1))
    /\ pc' = [pc EXCEPT ![t] = NoThread[t]]
    /\ UNCHANGED <<components, driver, unreadable, output_dir, loaded, get_result,
                   attempts, aux>>

ParNext ==
    \E t \in Threads :
        \/ \E irn_id \in {IRN(1), IRN(2)} : TestVisited(t, irn_id)
        \/ AddVisited(t)
        \/ RunTry(t)

SpecPar == ParInit /\ [][ParNext]_vars

----------------------------------------------------------------------------
(* The variant specification: stream_irn of chunk_streamer1.py over stores *)
(* whose directives name MRN10001 with and without suffixes.               *)

MrnA == Tok("MRN", 1, "_A", FALSE)
MrnB == Tok("MRN", 1, "_B", FALSE)

VariantTargets == {Use(MRN(1)), Use(MrnA), Use(MrnB), Use(MRN(2)), Use(IRN(1))}

VariantStores ==
    UNION {Directives({IRN(1), MRN(1)} \cup opt, VariantTargets, MaxVariantRefs) :
           opt \in SUBSET {MRN(2)}}

VariantInit ==
    /\ \E uses \in VariantStores : components = StoreOf(uses)
    /\ FreshStreamer
    /\ IdleDriver
    /\ QuietAux
    /\ QuietEnv

\* a caller runs stream_irn(irn_id) of chunk_streamer1.py
CallVariantStreamIrn(irn_id, wfail) ==
    /\ SetState(VariantStreamIrn(State, wfail, irn_id, 1))
    /\ UNCHANGED <<components, driver, env, aux>>

VariantNext ==
    \E irn_id \in {IRN(1), MRN(1)}, wfail \in SUBSET {IRN(1)} :
        CallVariantStreamIrn(irn_id, wfail)

SpecVariant == VariantInit /\ [][VariantNext]_vars

----------------------------------------------------------------------------
(* The embedding specification: besides stream_irn, a caller hands the     *)
(* text of a file of the store to _embed_all_nested of chunk_streamer.py,  *)
(* with the file's id as parent.  MRN10002 is never in the store.          *)

EmbedTargets == {Use(MRN(1)), Use(Tok("MRN", 1, "_A", FALSE)), Use(MRN(2)), Use(IRN(2))}

EmbedStores ==
    UNION {Directives({IRN(1), MRN(1)} \cup opt, EmbedTargets, MaxEmbedRefs) :
           opt \in SUBSET {IRN(2)}}

EmbedInit ==
    /\ \E uses \in EmbedStores : components = StoreOf(uses)
    /\ FreshStreamer
    /\ IdleDriver
    /\ QuietEnv
    /\ QuietAux

\* streamer._embed_all_nested(text, parent=parent), text read from <parent>.txt
CallEmbedAllNested(parent) ==
    /\ parent \in DOMAIN components
    /\ LET r == EmbedAllNested(State, {}, components[parent], parent,
                               InitialVisited(parent), 1)
       IN  /\ SetState(r.st)
           /\ embed_result' = [called |-> TRUE, parent |-> parent,
                               text |-> components[parent], output |-> r.output]
    /\ UNCHANGED <<components, driver, env, gen>>

EmbedNext ==
    \/ \E irn_id \in {IRN(1), IRN(2)} : CallStreamIrn(irn_id, {})
    \/ \E parent \in {IRN(1), IRN(2), MRN(1)} : CallEmbedAllNested(parent)

SpecEmbed == EmbedInit /\ [][EmbedNext]_vars

----------------------------------------------------------------------------
(* ClaudeClient.generate_code (code_continuation.py).  A response text is  *)
(* the record of what _needs_continuation, _merge_responses and            *)
(* _fallback_parse read of it: its length, the length of its trailing      *)
(* white space, its numbers of ``` and of **FILE:, whether its last        *)
(* non-blank characters are one of the endings of line 159, and its        *)
(* ```json block.  The texts have no leading white space, balanced braces  *)
(* and none of the project words of lines 168-175.                         *)

max_attempts == 3
max_continuations == 10
\* _needs_continuation: `len(response) < 2000`
TooShort == 2000

Text(len, trail, fences, files, tail, json) ==
    [len |-> len, trail |-> trail, fences |-> fences, files |-> files,
     tail |-> tail, json |-> json]

\* what the remote model answers to the initial request
InitialTexts ==
    {Text(2400, 0, 2, 1, "ok", "none"),     \* a whole answer
     Text(2400, 0, 2, 1, "ok", "bad"),      \* one with a ```json block json.loads rejects
     Text(2400, 1, 1, 1, "cut", "none"),    \* cut inside a code block
     Text(900, 0, 2, 1, "ok", "none"),      \* a short answer
     EmptyText}                             \* the stream broke before any text

\* what it answers to a continuation request
ContinuationTexts ==
    {EmptyText,
     Text(1, 1, 0, 0, "cut", "none"),       \* a newline
     Text(1200, 1, 1, 0, "ok", "none"),     \* the rest of a code block
     Text(1200, 0, 1, 1, "cut", "none")}    \* another file, cut again

\* _needs_continuation(response): the length test, and the checks 1, 2 and 8
NeedsContinuation(response) ==
    \/ response.len < TooShort
    \/ response.tail # "ok"
    \/ response.fences % 2 # 0
    \/ 2 * response.files > response.fences

\* `not continuation.strip()`
IsBlank(text) == text.len = text.trail

\* a merge without the test of line 376
MergeResponses_NoBlankTest(initial, continuation) ==
    Text((initial.len - initial.trail) + 2 + (continuation.len - continuation.trail),
         0, initial.fences + continuation.fences, initial.files + continuation.files,
         continuation.tail,
         IF initial.json # "none" THEN initial.json ELSE continuation.json)

\* _merge_responses(initial, continuation):
\* initial.rstrip() + "\n\n" + continuation.strip()
MergeResponses(initial, continuation) ==
    IF IsBlank(continuation) THEN initial
    ELSE Text((initial.len - initial.trail) + 2 + (continuation.len - continuation.trail),
              0, initial.fences + continuation.fences,
              initial.files + continuation.files, continuation.tail,
              IF initial.json # "none" THEN initial.json ELSE continuation.json)

\* _get_continuation_response: the text of the stream, or "" when the request
\* raises (lines 234-236)
GetContinuationResponse(raises, text) == IF raises THEN EmptyText ELSE text

\* _parse_response: the parser of utils.response_parser_working when it can be
\* imported and succeeds (parser_ok), else _fallback_parse, which raises
\* ValueError for a ```json block that is no JSON
ParseResponse(response_text, parser_ok) ==
    IF parser_ok THEN [exc |-> "", generated_code |-> "parsed"]
    ELSE IF response_text.json = "bad" THEN [exc |-> "ValueError", generated_code |-> ""]
    ELSE IF response_text.json = "good" THEN [exc |-> "", generated_code |-> "json"]
    ELSE [exc |-> "", generated_code |-> "raw"]

\* a loop that asks for one continuation at most
LoopContinues_Once(response, count) == NeedsContinuation(response) /\ count < 1

\* the condition of the while loop, line 96
LoopContinues(response, count) ==
    NeedsContinuation(response) /\ count < max_continuations

\* a handler for the errors of the remote service only
GenerateCatches_OnlyClientError(exc) == exc = "ClientError"

\* generate_code: `except Exception as e` (line 133)
GenerateCatches(exc) == TRUE

\* the exception exc leaves the try body of attempt g.attempt: lines 133-143
AttemptFailed(g, exc) ==
    IF ~GenerateCatches(exc)
    THEN [g EXCEPT !.pc = "raised", !.last_exc = exc, !.failed = @ + 1]
    ELSE IF g.attempt < max_attempts - 1
    THEN [g EXCEPT !.pc = "attempt", !.attempt = @ + 1, !.last_exc = exc,
                   !.failed = @ + 1]
    ELSE [g EXCEPT !.pc = "done", !.last_exc = exc, !.failed = @ + 1,
                   !.result = [success |-> FALSE, generated_code |-> "{}",
                               error_message |-> exc, continuations_used |-> 0,
                               attempt |-> 0]]

GenInit ==
    /\ components = EmptyFn
    /\ FreshStreamer
    /\ IdleDriver
    /\ QuietEnv
    /\ QuietAux

\* client.generate_code(request)
CallGenerateCode ==
    /\ gen.pc = "idle"
    /\ gen' = [gen EXCEPT !.pc = "attempt"]
    /\ UNCHANGED <<components, streamer, driver, env, embed_result>>

\* line 91, _get_initial_response: exc is the exception of the request or of
\* the raw file ("" when there is none), text what the stream gave
GetInitialResponse(exc, text) ==
    /\ gen.pc = "attempt"
    /\ LET g == [gen EXCEPT !.initial_requests = @ + 1]
       IN  gen' = IF exc # "" THEN AttemptFailed(g, exc)
                  ELSE [g EXCEPT !.pc = "loop", !.current_response = text,
                                 !.continuation_count = 0]
    /\ UNCHANGED <<components, streamer, driver, env, embed_result>>

\* one turn of the while loop, lines 96-106: raises: the continuation request
\* raises; text: what its stream gives; saved: the intermediate file is written
ContinueResponse(raises, text, saved) ==
    /\ gen.pc = "loop"
    /\ LoopContinues(gen.current_response, gen.continuation_count)
    /\ LET continuation_response == GetContinuationResponse(raises, text)
           g == [gen EXCEPT !.continuation_count = @ + 1,
                            !.continuation_response = continuation_response,
                            !.request_raised = raises,
                            !.current_response =
                                MergeResponses(@, continuation_response)]
       IN  gen' = IF saved THEN g ELSE AttemptFailed(g, "OSError")
    /\ UNCHANGED <<components, streamer, driver, env, embed_result>>

\* lines 108-131 once the loop is left: the final file, the parse, the result
FinishAttempt(saved, parser_ok) ==
    /\ gen.pc = "loop"
    /\ ~LoopContinues(gen.current_response, gen.continuation_count)
    /\ LET parsed == ParseResponse(gen.current_response, parser_ok)
       IN  gen' = IF ~saved THEN AttemptFailed(gen, "OSError")
                  ELSE IF parsed.exc # "" THEN AttemptFailed(gen, parsed.exc)
                  ELSE [gen EXCEPT !.pc = "done",
                                   !.result = [success |-> TRUE,
                                               generated_code |-> parsed.generated_code,
                                               error_message |-> "",
                                               continuations_used |-> gen.continuation_count,
                                               attempt |-> gen.attempt + 1]]
    /\ UNCHANGED <<components, streamer, driver, env, embed_result>>

\* the steps of a generate_code call that is under way
GenStep ==
    \/ \E exc \in {"", "ClientError", "OSError"}, text \in InitialTexts :
          GetInitialResponse(exc, text)
    \/ \E raises \in BOOLEAN, text \in ContinuationTexts, saved \in BOOLEAN :
          ContinueResponse(raises, text, saved)
    \/ \E saved \in BOOLEAN, parser_ok \in BOOLEAN : FinishAttempt(saved, parser_ok)

GenNext == CallGenerateCode \/ GenStep

\* a call that has begun goes on: every statement of generate_code returns or
\* raises (the requests have a read timeout, line 55; the handler sleeps 30 s)
SpecGen == GenInit /\ [][GenNext]_vars /\ WF_vars(GenStep)

----------------------------------------------------------------------------
(* log_call_tree (tree_logger.py).  A line of the log is the record        *)
(* [segs, node]: the four-character segments of its prefix, "blank" for    *)
(* four blanks and "bar" for a vertical bar and three blanks, then the id. *)

\* call_tree.get(node, [])
ChildrenOf(tree, node) == IF node \in DOMAIN tree THEN tree[node] ELSE <<>>

\* the keys of the tree and the children of its lists
NodesOf(tree) ==
    DOMAIN tree \cup UNION {{tree[p][i] : i \in 1..Len(tree[p])} : p \in DOMAIN tree}

\* a walk deeper than the number of nodes is on a node for the second time, and
\* goes on until the interpreter's recursion limit ends it with RecursionError
WalkLimit(tree) == Cardinality(NodesOf(tree)) + 1

\* the order of the id strings: "IRN..." before "MRN...", then by the digits
StrLess(a, b) ==
    \/ a.typ = "IRN" /\ b.typ # "IRN"
    \/ a.typ = b.typ /\ IdLess(a, b)

\* sorted(S)
RECURSIVE Sorted(_)
Sorted(S) ==
    IF S = {} THEN <<>>
    ELSE LET least == CHOOSE x \in S : \A y \in S \ {x} : StrLess(x, y)
         IN  <<least>> \o Sorted(S \ {least})

RECURSIVE walk_tree(_, _, _, _)
RECURSIVE walk_children(_, _, _, _, _, _)

\* walk_tree(node, prefix) at recursion depth d: its lines, or the exception
\* that ends it.  Line 14 is f"{prefix}{node}": the connector of line 17 is
\* assigned and never used.
walk_tree(tree, node, prefix, d) ==
    IF d > WalkLimit(tree)
    THEN [lines |-> <<>>, exc |-> "RecursionError"]
    ELSE walk_children(tree, ChildrenOf(tree, node), 1, prefix,
                       <<[segs |-> prefix, node |-> node]>>, d)

\* the for loop of walk_tree from child i on
walk_children(tree, children, i, prefix, lines, d) ==
    IF i > Len(children)
    THEN [lines |-> lines, exc |-> ""]
    ELSE LET next_prefix == Append(prefix, IF i = Len(children) THEN "blank" ELSE "bar")
             r == walk_tree(tree, children[i], next_prefix, d + 1)
         IN  IF r.exc # ""
             THEN [lines |-> lines, exc |-> r.exc]
             ELSE walk_children(tree, children, i + 1, prefix, lines \o r.lines, d)

\* roots = all_nodes - called_nodes
RootsOf(tree) ==
    DOMAIN tree \ UNION {{tree[p][i] : i \in 1..Len(tree[p])} : p \in DOMAIN tree}

\* `for root in sorted(roots): all_lines.extend(walk_tree(root))` from root i on
RECURSIVE walk_roots(_, _, _, _)
walk_roots(tree, roots, i, all_lines) ==
    IF i > Len(roots)
    THEN [lines |-> all_lines, exc |-> ""]
    ELSE LET r == walk_tree(tree, roots[i], <<>>, 1)
         IN  IF r.exc # ""
             THEN [lines |-> <<>>, exc |-> r.exc]
             ELSE walk_roots(tree, roots, i + 1, all_lines \o r.lines)

\* log_call_tree(call_tree, output_path): the lines written to the file, or the
\* exception that leaves the call.  has_dir: output_path names a directory;
\* without one os.path.dirname is "" and os.makedirs("") raises (line 31).
log_call_tree(tree, has_dir) ==
    LET r == walk_roots(tree, Sorted(RootsOf(tree)), 1, <<>>)
    IN  IF r.exc # "" THEN r
        ELSE IF ~has_dir THEN [lines |-> <<>>, exc |-> "FileNotFoundError"]
        ELSE r

----------------------------------------------------------------------------
(* The tree specification: edges recorded on a ChunkStreamer, by           *)
(* stream_irn and by _add_to_call_tree itself, and then its call tree       *)
(* logged.                                                                 *)

TreeNodes == {IRN(1), MRN(1), MRN(2)}

\* IRN00001 references MRN10001; MRN10001 and MRN10002 reference each other
TreeStore ==
    StoreOf((IRN(1) :> <<Use(MRN(1))>>) @@ (MRN(1) :> <<Use(MRN(2))>>)
            @@ (MRN(2) :> <<Use(MRN(1))>>))

EdgeCount(tree) ==
    Cardinality(UNION {{<<p, i>> : i \in 1..Len(tree[p])} : p \in DOMAIN tree})

TreeInit ==
    /\ components = TreeStore
    /\ FreshStreamer
    /\ IdleDriver
    /\ QuietAux
    /\ QuietEnv

\* streamer.stream_irn("IRN00001")
TreeStream ==
    /\ tree_log = NoLog
    /\ CallStreamIrn(IRN(1), {})

\* streamer._add_to_call_tree(parent, child)
AddEdge(parent, child) ==
    /\ tree_log = NoLog
    /\ EdgeCount(call_tree) < MaxEdges
    /\ call_tree' = AddToCallTree(call_tree, parent, child)
    /\ UNCHANGED <<components, visited_irns, artifacts, writes, write_failed,
                   overflow, last, scanned, driver, env, aux>>

\* log_call_tree(streamer.call_tree, output_path)
CallLogCallTree(has_dir) ==
    /\ tree_log = NoLog
    /\ tree_log' = log_call_tree(call_tree, has_dir)
    /\ UNCHANGED <<components, streamer, phase, entries, entries2, pending, order,
                   run, prev, env, aux>>

TreeNext ==
    \/ TreeStream
    \/ \E parent, child \in TreeNodes : AddEdge(parent, child)
    \/ \E has_dir \in BOOLEAN : CallLogCallTree(has_dir)

SpecTree == TreeInit /\ [][TreeNext]_vars

----------------------------------------------------------------------------
(* Vocabulary of the properties *)

\* how many lines of kind `kind` for id `id` the chunk A holds
Count(A, kind, id) ==
    Cardinality({i \in 1..Len(A) : A[i].k = kind /\ A[i].id = id})

\* how often the ordinary line n of file `owner` occurs in A
Occurs(A, owner, n) ==
    Cardinality({i \in 1..Len(A) : A[i].k = "text" /\ A[i].id = owner /\ A[i].n = n})

\* the normalized ids the directives of a text target, as the scanner resolves them
TargetsOf(text) ==
    {CompId(FullId(text[i])) : i \in {j \in 1..Len(text) : Match(text[j])}}

Referenced(id) == \E f \in DOMAIN components : id \in TargetsOf(components[f])

\* stream_irn(R) was called on a streamer that had not seen R, has returned, and
\* no write of R was refused
Streamed(R) == R \in visited_irns /\ R \notin write_failed

HasText(f, targets) == f \in DOMAIN components /\ components[f] = MkText(f, targets)

Ascending(seq) == \A i, j \in 1..Len(seq) : i < j => IdLess(seq[i], seq[j])

----------------------------------------------------------------------------
(* C1 *)

----------------------------------------------------------------------------
(* C2 *)

\* C2: a directive for an existing non-entry component C is replaced by the
\* start marker of C, the expansion of C's text and the end marker of C, and
\* no line of C occurs twice in the chunk; for IRN00001 = a / USE MRN10001 / b
\* and MRN10001 = x the artifact of IRN00001 is: start of IRN, a, start of
\* MRN10001, x, end of MRN10001, b, end of IRN.
C2_SimpleInline ==
    /\ \A R \in DOMAIN artifacts : \A i \in 1..Len(artifacts[R]) :
          LET l == artifacts[R][i]
          IN  l.k = "text" /\ l.id.typ # "IRN" => Occurs(artifacts[R], l.id, l.n) = 1
    /\ (/\ HasText(IRN(1), <<Use(MRN(1))>>)
        /\ HasText(MRN(1), <<>>)
        /\ Streamed(IRN(1)))
       => /\ IRN(1) \in DOMAIN artifacts
          /\ artifacts[IRN(1)] =
               << Marker("startirn", IRN(1), 0), TextLine(IRN(1), 0),
                  Marker("start", MRN(1), 0), TextLine(MRN(1), 0),
                  Marker("end", MRN(1), 0), TextLine(IRN(1), 1),
                  Marker("endirn", IRN(1), 0) >>

----------------------------------------------------------------------------
(* C3 *)

\* C3: a chunk holds at most one start marker per id; when IRN00001 references
\* the existing MRN10001 twice, its chunk holds one start marker of MRN10001,
\* for the first directive, and one duplicate marker, for the second.
C3_ExpandedOnce ==
    /\ \A R \in DOMAIN artifacts : \A i \in 1..Len(artifacts[R]) :
          artifacts[R][i].k = "start"
            => Count(artifacts[R], "start", artifacts[R][i].id) = 1
    /\ (/\ HasText(IRN(1), <<Use(MRN(1)), Use(MRN(1))>>)
        /\ HasText(MRN(1), <<>>)
        /\ Streamed(IRN(1)))
       => /\ IRN(1) \in DOMAIN artifacts
          /\ Count(artifacts[IRN(1)], "start", MRN(1)) = 1
          /\ Count(artifacts[IRN(1)], "dup", MRN(1)) = 1

----------------------------------------------------------------------------
(* C4 *)

\* C4: the chunk of R holds no start marker and no line of an IRN component
\* other than R; when IRN00001 references the existing IRN00002 and no write is
\* refused, both get their own artifact, whether or not IRN00002 had been
\* produced before.
C4_EntryNeverInlined ==
    /\ \A R \in DOMAIN artifacts : \A i \in 1..Len(artifacts[R]) :
          LET l == artifacts[R][i]
          IN  l.k \in {"start", "text"} /\ l.id.typ = "IRN" => l.id = BaseId(R)
    /\ (/\ IRN(1) \in DOMAIN components
        /\ IRN(2) \in DOMAIN components
        /\ IRN(2) \in TargetsOf(components[IRN(1)])
        /\ Streamed(IRN(1))
        /\ IRN(2) \notin write_failed)
       => {IRN(1), IRN(2)} \subseteq DOMAIN artifacts

----------------------------------------------------------------------------
(* C5 *)

\* C5: a directive for an id without component is replaced by one missing
\* marker and nothing else is lost: for IRN00001 = line1 / USE MRN10002 / line2
\* with no MRN10002 in the store, the artifact of IRN00001 is written and is:
\* start of IRN, line1, missing marker of MRN10002, line2, end of IRN.
C5_MissingIsLocal ==
    (/\ HasText(IRN(1), <<Use(MRN(2))>>)
     /\ MRN(2) \notin DOMAIN components
     /\ Streamed(IRN(1)))
    => /\ IRN(1) \in DOMAIN artifacts
       /\ artifacts[IRN(1)] =
            << Marker("startirn", IRN(1), 0), TextLine(IRN(1), 0),
               Marker("missing", MRN(2), 0), TextLine(IRN(1), 1),
               Marker("endirn", IRN(1), 0) >>

----------------------------------------------------------------------------
(* C6 *)

\* C6: when IRN00001 = a / USE IRN00002 / b, IRN00002 = y, neither has been
\* produced and no write is refused, stream_irn(IRN00001) leaves two artifacts:
\* that of IRN00001 holds the nested-entry marker and no line of IRN00002, that
\* of IRN00002 is: start of IRN, y, end of IRN.
C6_NestedEntry ==
    (/\ HasText(IRN(1), <<Use(IRN(2))>>)
     /\ HasText(IRN(2), <<>>)
     /\ last.arg = IRN(1)
     /\ last.before = {}
     /\ write_failed = {})
    => /\ {IRN(1), IRN(2)} \subseteq DOMAIN artifacts
       /\ artifacts[IRN(1)] =
            << Marker("startirn", IRN(1), 0), TextLine(IRN(1), 0),
               Marker("nested", IRN(2), 0), TextLine(IRN(1), 1),
               Marker("endirn", IRN(1), 0) >>
       /\ artifacts[IRN(2)] =
            << Marker("startirn", IRN(2), 0), TextLine(IRN(2), 0),
               Marker("endirn", IRN(2), 0) >>

----------------------------------------------------------------------------
(* C7 *)

\* C7: the chunk of R never holds a start marker of R or a second copy of a
\* line of R; for IRN00001 = a / USE IRN00001 / b the artifact of IRN00001 is:
\* start of IRN, a, duplicate marker of IRN00001, b, end of IRN.
C7_RootIsVisited ==
    /\ \A R \in DOMAIN artifacts :
          /\ Count(artifacts[R], "start", BaseId(R)) = 0
          /\ \A i \in 1..Len(artifacts[R]) :
                artifacts[R][i].k = "text" /\ artifacts[R][i].id = BaseId(R)
                  => Occurs(artifacts[R], BaseId(R), artifacts[R][i].n) = 1
    /\ (HasText(IRN(1), <<Use(IRN(1))>>) /\ Streamed(IRN(1)))
       => /\ IRN(1) \in DOMAIN artifacts
          /\ artifacts[IRN(1)] =
               << Marker("startirn", IRN(1), 0), TextLine(IRN(1), 0),
                  Marker("dup", IRN(1), 0), TextLine(IRN(1), 1),
                  Marker("endirn", IRN(1), 0) >>

----------------------------------------------------------------------------
(* C8 *)

\* C8: no id that detect_entry_irns returns, and no id of list_irns() minus
\* find_used_irns(), is in normalized form the target of a directive of a file
\* of the store.
C8_NoReferencedEntry ==
    /\ \A e \in entries : ~Referenced(BaseId(e))
    /\ \A e \in entries2 : ~Referenced(BaseId(e))

----------------------------------------------------------------------------
(* C9 *)

\* C9: the entries are processed in ascending order of their ids.
C9_SortedEntries == Ascending(order)

----------------------------------------------------------------------------
(* C10 *)

----------------------------------------------------------------------------
(* C11 *)

\* the chunk stream_irn(R) writes for R when R is the first build of a new
\* ChunkStreamer and no write is refused
FirstBuilt(R) == StreamIrn(FreshState, {}, R, 1).artifacts

----------------------------------------------------------------------------
(* C12 *)

\* C12: every id of visited_irns has its artifact written.
C12_VisitedMeansWritten ==
    \A R \in visited_irns : R \in DOMAIN artifacts

----------------------------------------------------------------------------
(* C13 *)

\* C13: a stream_irn call for an id that is already in visited_irns takes the
\* skip branch and leaves visited_irns, call_tree and the artifacts as they
\* were, and no artifact is written twice.
C13_SecondCallNoOp ==
    [][/\ last'.arg \in visited_irns
            => /\ last'.skipped
               /\ UNCHANGED <<visited_irns, call_tree, artifacts, writes, write_failed>>
       /\ \A i, j \in 1..Len(writes') : writes'[i] = writes'[j] => i = j]_vars

\* stream_irn has just returned from a call for an id that was in visited_irns
C13_Witness ==
    /\ last.skipped
    /\ last.arg \in last.before
    /\ last.arg \in DOMAIN components

----------------------------------------------------------------------------
(* C14 *)

\* C14: no error leaves stream_irn, and whatever happened to the builds of
\* other roots, a root of the store without directives whose own write is not
\* refused has its artifact once its stream_irn call has returned.
C14_WriteFailureIsLocal ==
    /\ ~last.raised
    /\ \A R \in StreamRoots :
          (HasText(R, <<>>) /\ Streamed(R)) => R \in DOMAIN artifacts

----------------------------------------------------------------------------
(* C15 *)

\* C15: visited_irns and call_tree hold normalized ids only (upper case, no
\* suffix), and a stream_irn call whose id is, in normalized form, that of an
\* id stream_irn was called with before takes the skip branch.
C15_NormalizedIds ==
    /\ \A x \in visited_irns : x = BaseId(x)
    /\ \A p \in DOMAIN call_tree :
          /\ p = BaseId(p)
          /\ \A i \in 1..Len(call_tree[p]) : call_tree[p][i] = BaseId(call_tree[p][i])
    /\ BaseId(last.arg) \in {BaseId(x) : x \in last.before} => last.skipped

----------------------------------------------------------------------------
(* C16 *)

\* the lines of chunk A that a directive for id C brings in: the markers of C
\* and the lines of C's text
EmittedFor(A, C) ==
    {i \in 1..Len(A) :
        /\ A[i].id = C
        /\ A[i].k \in {"start", "end", "dup", "missing", "nested", "text"}}

\* C16: for IRN00001 = a / <W blanks>USE MRN10001 / b and MRN10001 = x the
\* artifact of IRN00001 is written, and its start marker of MRN10001, the
\* line x and its end marker of MRN10001 each begin with W blanks.
C16_IndentReapplied ==
    (/\ HasText(IRN(1), <<UseAt(MRN(1), W)>>)
     /\ HasText(MRN(1), <<>>)
     /\ Streamed(IRN(1)))
    => /\ IRN(1) \in DOMAIN artifacts
       /\ EmittedFor(artifacts[IRN(1)], MRN(1)) # {}
       /\ \A i \in EmittedFor(artifacts[IRN(1)], MRN(1)) : artifacts[IRN(1)][i].ind = W

----------------------------------------------------------------------------
(* C17 *)

\* C17: for IRN00001 = a / USE <id> / b, where <id> has four digits, six
\* digits or an unknown type code, stream_irn("IRN00001") raises nothing,
\* records no edge, and writes the artifact: start of IRN, a, the directive
\* line as it stands, b, end of IRN.
C17_BadIdPassesThrough ==
    \A bad \in {ShortId, LongId, UnknownTypeId} :
        (HasText(IRN(1), <<UseAt(bad, 0)>>) /\ Streamed(IRN(1)))
        => /\ ~last.raised
           /\ IRN(1) \notin DOMAIN call_tree
           /\ IRN(1) \in DOMAIN artifacts
           /\ artifacts[IRN(1)] =
                << Marker("startirn", IRN(1), 0), TextLine(IRN(1), 0),
                   UseLine("USE", bad, 0), TextLine(IRN(1), 1),
                   Marker("endirn", IRN(1), 0) >>

----------------------------------------------------------------------------
(* C18 *)

NoDuplicate(seq) == \A i, j \in 1..Len(seq) : seq[i] = seq[j] => i = j

IsPrefix(a, b) == Len(a) <= Len(b) /\ \A i \in 1..Len(a) : a[i] = b[i]

\* C18: every step keeps each parent's child list as a prefix of its new list
\* (children stay in first-seen order), no child list holds an id twice, and
\* recording an edge that is present leaves call_tree as it is.
C18_CallTreeLists ==
    [][/\ \A p \in DOMAIN call_tree :
            p \in DOMAIN call_tree' /\ IsPrefix(call_tree[p], call_tree'[p])
       /\ \A p \in DOMAIN call_tree' :
            /\ NoDuplicate(call_tree'[p])
            /\ \A i \in 1..Len(call_tree'[p]) :
                  AddToCallTree(call_tree', p, call_tree'[p][i]) = call_tree']_vars

\* IRN00001 got MRN10002 before MRN10001, and MRN10001 got MRN10002
C18_Witness ==
    /\ IRN(1) \in DOMAIN call_tree /\ call_tree[IRN(1)] = <<MRN(2), MRN(1)>>
    /\ MRN(1) \in DOMAIN call_tree /\ call_tree[MRN(1)] = <<MRN(2)>>

----------------------------------------------------------------------------
(* C19 *)

\* C19: log_call_tree ends without RecursionError on every call tree, the
\* cyclic ones included.
C19_RenderTerminates == tree_log.exc # "RecursionError"

----------------------------------------------------------------------------
(* C20 *)

\* C20: in the log every line of a node below a root ends its prefix with a
\* connector ("tee" before a child that is not the last, "ell" before the
\* last), after one "bar" or "blank" segment for each ancestor level.
C20_Connectors ==
    \A i \in 1..Len(tree_log.lines) :
        LET segs == tree_log.lines[i].segs
        IN  segs # <<>>
              => /\ segs[Len(segs)] \in {"tee", "ell"}
                 /\ \A k \in 1..(Len(segs) - 1) : segs[k] \in {"bar", "blank"}

----------------------------------------------------------------------------
(* C21 *)

\* C21: a get call for an id the loader holds in its snapshot returns the text
\* of the snapshot, whatever became of the file since.
C21_StaticSnapshot ==
    (get_result # NoGet /\ BaseId(get_result.id) \in DOMAIN loaded.components)
      => /\ get_result.ok
         /\ get_result.text = loaded.components[BaseId(get_result.id)]

----------------------------------------------------------------------------
(* C22 *)

\* C22: the constructor of ComponentLoader ends with an exception only when
\* the directory cannot be listed; a file that cannot be read does not end it.
C22_UnreadableSkipped ==
    \/ loaded = NotLoaded
    \/ loaded.ok
    \/ loaded.exc = "FileNotFoundError"

----------------------------------------------------------------------------
(* C24 *)

\* C24: for IRN00001 = a / USE MRN10001 / b, where the file of MRN10001 is
\* there and cannot be read, stream_irn("IRN00001") writes the artifact of
\* IRN00001, which holds one error marker of MRN10001, no missing marker of
\* MRN10001, and the line b.
C24_ErrorMarker ==
    (/\ HasText(IRN(1), <<Use(MRN(1))>>)
     /\ IRN(1) \notin unreadable
     /\ MRN(1) \in DOMAIN components /\ MRN(1) \in unreadable
     /\ output_dir = "present"
     /\ Streamed(IRN(1)))
    => /\ IRN(1) \in DOMAIN artifacts
       /\ Count(artifacts[IRN(1)], "error", MRN(1)) = 1
       /\ Count(artifacts[IRN(1)], "missing", MRN(1)) = 0
       /\ Occurs(artifacts[IRN(1)], IRN(1), 1) = 1

----------------------------------------------------------------------------
(* C25 *)

\* C25: once stream_irn("IRN00001") has returned for a readable IRN00001
\* without directives, the output directory exists and holds the artifact of
\* IRN00001: start of IRN, the line of IRN00001, end of IRN.
C25_OutputDirCreated ==
    (/\ HasText(IRN(1), <<>>)
     /\ IRN(1) \notin unreadable
     /\ IRN(1) \in visited_irns)
    => /\ output_dir = "present"
       /\ IRN(1) \in DOMAIN artifacts
       /\ artifacts[IRN(1)] =
            << Marker("startirn", IRN(1), 0), TextLine(IRN(1), 0),
               Marker("endirn", IRN(1), 0) >>

----------------------------------------------------------------------------
(* C23 *)

\* C23: of the threads that call stream_irn on one ChunkStreamer, at most one
\* gets past the test of visited_irns and into the try block for the same id.
C23_OneBuilder ==
    \A id \in {IRN(1), IRN(2)} :
        Cardinality({t \in Threads : <<t, id>> \in attempts}) <= 1

----------------------------------------------------------------------------
(* C26 *)

\* the positions in chunk A of the ordinary lines of file f
OwnLines(A, f) == {i \in 1..Len(A) : A[i].k = "text" /\ A[i].id = f}

\* C26: the artifact of a root that no directive of the store references is
\* written, and holds each ordinary line of the root's text once, not
\* indented, in the order of the text.
C26_LinesPassThrough ==
    \A R \in StreamRoots :
        (R \in DOMAIN components /\ ~Referenced(R) /\ Streamed(R))
        => /\ R \in DOMAIN artifacts
           /\ \A j \in 1..Len(components[R]) :
                 components[R][j].k = "text"
                   => Occurs(artifacts[R], R, components[R][j].n) = 1
           /\ \A i, j \in OwnLines(artifacts[R], R) :
                 /\ artifacts[R][i].ind = 0
                 /\ i < j => artifacts[R][i].n < artifacts[R][j].n

----------------------------------------------------------------------------
(* C27 *)

\* chunk A inlines component C: one start marker of C, no duplicate marker
InlinesOnce(A, C) == Count(A, "start", C) = 1 /\ Count(A, "dup", C) = 0

\* C27: when IRN00001 and IRN00002 both reference the existing MRN10001 and
\* both are streamed, both artifacts are written and each inlines MRN10001;
\* and when IRN00001 = USE MRN10001 / USE IRN00002 and IRN00002 = USE MRN10001,
\* the artifact of the nested IRN00002 inlines MRN10001 as well.
C27_DedupPerChunk ==
    /\ (/\ HasText(IRN(1), <<Use(MRN(1))>>)
        /\ HasText(IRN(2), <<Use(MRN(1))>>)
        /\ HasText(MRN(1), <<>>)
        /\ Streamed(IRN(1)) /\ Streamed(IRN(2)))
       => /\ {IRN(1), IRN(2)} \subseteq DOMAIN artifacts
          /\ InlinesOnce(artifacts[IRN(1)], MRN(1))
          /\ InlinesOnce(artifacts[IRN(2)], MRN(1))
    /\ (/\ HasText(IRN(1), <<Use(MRN(1)), Use(IRN(2))>>)
        /\ HasText(IRN(2), <<Use(MRN(1))>>)
        /\ HasText(MRN(1), <<>>)
        /\ last.arg = IRN(1) /\ last.before = {} /\ write_failed = {})
       => /\ IRN(2) \in DOMAIN artifacts
          /\ InlinesOnce(artifacts[IRN(2)], MRN(1))

\* C28: in the variant specification, when IRN00001 is a / USE MRN10002 / b, no
\* file MRN10002.txt exists and IRN00001 was streamed without a failing write,
\* its artifact exists and holds a, b and a missing marker for MRN10002.
C28_MissingMrnNonFatal ==
    (/\ HasText(IRN(1), <<Use(MRN(2))>>)
     /\ MRN(2) \notin DOMAIN components
     /\ Streamed(IRN(1)))
    => /\ IRN(1) \in DOMAIN artifacts
       /\ Count(artifacts[IRN(1)], "missing", MRN(2)) >= 1
       /\ Occurs(artifacts[IRN(1)], IRN(1), 0) >= 1
       /\ Occurs(artifacts[IRN(1)], IRN(1), 1) >= 1

\* how often id occurs in the list seq
Times(seq, id) == Cardinality({i \in 1..Len(seq) : seq[i] = id})

\* C29: in the variant specification no child list of call_tree holds an id
\* twice, and when IRN00001 is a / USE MRN10001 / b / USE MRN10001 / c and was
\* streamed, call_tree has the key IRN00001 and its list holds MRN10001 once.
C29_DistinctChildren ==
    /\ \A p \in DOMAIN call_tree : NoDuplicate(call_tree[p])
    /\ (HasText(IRN(1), <<Use(MRN(1)), Use(MRN(1))>>) /\ IRN(1) \in visited_irns)
       => /\ IRN(1) \in DOMAIN call_tree
          /\ Times(call_tree[IRN(1)], MRN(1)) = 1

\* how many markers of the kinds ks in A name an id whose type and digits are C's
CountBase(A, ks, C) ==
    Cardinality({i \in 1..Len(A) : A[i].k \in ks /\ CompId(A[i].id) = C})

\* C30: in the variant specification, when IRN00001 is
\* a / USE MRN10001_A / b / USE MRN10001_B / c, MRN10001.txt exists and IRN00001
\* was streamed without a failing write, its artifact exists, opens MRN10001
\* once and holds one duplicate marker for it.
C30_SuffixCosmetic ==
    (/\ HasText(IRN(1), <<Use(MrnA), Use(MrnB)>>)
     /\ HasText(MRN(1), <<>>)
     /\ Streamed(IRN(1)))
    => /\ IRN(1) \in DOMAIN artifacts
       /\ CountBase(artifacts[IRN(1)], {"start", "startmrn"}, MRN(1)) = 1
       /\ CountBase(artifacts[IRN(1)], {"dup"}, MRN(1)) = 1

\* the call tree holds the edge parent -> child
HasEdge(parent, child) ==
    /\ parent \in DOMAIN call_tree
    /\ \E j \in 1..Len(call_tree[parent]) : call_tree[parent][j] = child

\* C31: for every text _embed_all_nested of chunk_streamer.py scanned with
\* parent P, and every directive of it, the edge from P to the directive's
\* normalized target is in call_tree, however the directive was rendered.
C31_EveryDirectiveRecorded ==
    \A s \in scanned :
        \A i \in 1..Len(s[2]) :
            Match(s[2][i]) => HasEdge(s[1], CompId(FullId(s[2][i])))

\* a text with two directives for MRN10001 and one for the missing MRN10002
\* was scanned: the second rendered as a duplicate, the third as missing
C31_Witness ==
    /\ embed_result.called
    /\ <<embed_result.parent, embed_result.text>> \in scanned
    /\ Count(embed_result.output, "dup", MRN(1)) >= 1
    /\ HasEdge(embed_result.parent, MRN(1))
    /\ \E c \in {MRN(1), MRN(2), IRN(2)} :
          /\ Count(embed_result.output, "missing", c) >= 1
          /\ HasEdge(embed_result.parent, c)

\* the nested markers of chunk A name ids that have artifacts
MarkersResolved(A) ==
    \A i \in 1..Len(A) : A[i].k = "nested" => A[i].id \in DOMAIN artifacts

RECURSIVE Closure(_)
Closure(S) ==
    LET T == S \cup UNION {TargetsOf(components[x]) : x \in S \cap DOMAIN components}
    IN  IF T = S THEN S ELSE Closure(T)

\* the ids reachable from R by one directive or more
ReachableFrom(R) ==
    Closure(IF R \in DOMAIN components THEN TargetsOf(components[R]) ELSE {})

\* C33: when no write failed and the last stream_irn call to return was not
\* skipped, every existing entry reachable from its argument through the
\* directives of existing components is in visited_irns and has an artifact.
C33_ReachableEntriesBuilt ==
    (last # NoCall /\ ~last.skipped /\ write_failed = {})
    => \A C \in ReachableFrom(last.arg) :
          (C.typ = "IRN" /\ C \in DOMAIN components)
          => (C \in visited_irns /\ C \in DOMAIN artifacts)

\* the place of id in the list seq, 0 when it is not there
PlaceOf(seq, id) ==
    IF \E i \in 1..Len(seq) : seq[i] = id
    THEN CHOOSE i \in 1..Len(seq) : seq[i] = id
    ELSE 0

\* C34: when IRN00001 is a / USE IRN00002 / b, IRN00002.txt exists, and
\* stream_irn("IRN00001") was the first call and no write failed, both
\* artifacts are written, that of IRN00002 before that of IRN00001, and the
\* artifact of IRN00001 holds the nested marker for IRN00002.
C34_NestedBuiltFirst ==
    (/\ HasText(IRN(1), <<Use(IRN(2))>>)
     /\ IRN(2) \in DOMAIN components
     /\ last.arg = IRN(1) /\ last.before = {} /\ write_failed = {})
    => /\ PlaceOf(writes, IRN(2)) >= 1
       /\ PlaceOf(writes, IRN(2)) < PlaceOf(writes, IRN(1))
       /\ IRN(1) \in DOMAIN artifacts
       /\ Count(artifacts[IRN(1)], "nested", IRN(2)) = 1

\* C35: when log_call_tree has written its file, every id of the call tree,
\* parent or child, is the node of at least one line of it.
C35_LogCoversGraph ==
    (tree_log # NoLog /\ tree_log.exc = "")
    => \A node \in NodesOf(call_tree) :
          \E i \in 1..Len(tree_log.lines) : tree_log.lines[i].node = node

\* generate_code has returned
Returned == gen.pc = "done"

\* what holds of generate_code at every moment: no exception has left it,
\* it has begun 3 attempts at most, attempt n + 1 is under way only after n
\* attempts failed, and once it has returned, either it reports success from the
\* first attempt that did not raise, or 3 attempts failed and it reports
\* failure with no code and the message of the last exception
GenerateCodeSafe ==
    /\ gen.pc # "raised"
    /\ gen.initial_requests <= 3
    /\ gen.pc \in {"attempt", "loop"} => (gen.attempt = gen.failed /\ gen.failed < 3)
    /\ Returned =>
          IF gen.result.success
          THEN gen.result.attempt = gen.failed + 1
          ELSE /\ gen.failed = 3
               /\ gen.result.generated_code = "{}"
               /\ gen.result.error_message = gen.last_exc

\* C36: generate_code propagates no exception, makes at most 3 attempts,
\* returns success from the first attempt that does not raise and failure with
\* the last exception's message after the third failed attempt; and a call
\* that has begun returns.
C36_GenerateCodeReturns ==
    /\ []GenerateCodeSafe
    /\ (gen.pc # "idle") ~> Returned

\* three attempts failed, the last one in the parse, and the call returned failure
C36_Witness ==
    /\ Returned
    /\ ~gen.result.success
    /\ gen.failed = 3
    /\ gen.result.error_message = "ValueError"

\* C37: an attempt never counts more than 5 continuation requests.
C37_AtMostFiveContinuations == gen.continuation_count <= 5

\* C38: in every turn of the continuation loop, a request that raises gives
\* the empty string, a blank continuation leaves current_response as it was,
\* and when the intermediate file is then written the attempt is the same and
\* the loop is at its test again.
C38_FailedContinuationHarmless ==
    [][(gen.pc = "loop" /\ gen'.continuation_count = gen.continuation_count + 1)
       => /\ gen'.request_raised => gen'.continuation_response = EmptyText
          /\ IsBlank(gen'.continuation_response)
                => gen'.current_response = gen.current_response
          /\ (IsBlank(gen'.continuation_response) /\ gen'.failed = gen.failed)
                => (gen'.attempt = gen.attempt /\ gen'.pc = "loop")]_vars

\* after a continuation request that raised, the loop is at its test with a
\* response that had text before and still needs continuation
C38_Witness ==
    /\ gen.pc = "loop"
    /\ gen.continuation_count >= 1
    /\ gen.request_raised
    /\ gen.continuation_response = EmptyText
    /\ gen.current_response.len > gen.current_response.trail
    /\ NeedsContinuation(gen.current_response)

\* C39 as stated: a successful result's final text needs no continuation.
C39_SuccessMeansComplete ==
    (Returned /\ gen.result.success) => ~NeedsContinuation(gen.current_response)

\* C39, amended: a successful result's final text needs no continuation, or
\* the attempt used all max_continuations continuation requests.
C39_CompleteOrOutOfContinuations ==
    (Returned /\ gen.result.success)
    => \/ ~NeedsContinuation(gen.current_response)
       \/ gen.result.continuations_used = max_continuations

\* success with a final text that still needs continuation
C39_Witness ==
    /\ Returned
    /\ gen.result.success
    /\ NeedsContinuation(gen.current_response)
    /\ gen.result.continuations_used = max_continuations

====
